---- MODULE Spec2Model ----
(***************************************************************************)
(* A model of the two plugins of the repository:                           *)
(*   GameplayUtils  - UGameplayUtilsBPLibrary: SmoothRotatorInterp,        *)
(*                    CalculateJumpVelocity, FindClosestActor              *)
(*   PythonTools    - FPythonToolsEditorStyle and FPythonToolsEditorModule *)
(*                                                                         *)
(* Numbers.  The engine's floats are modelled on exact grids:              *)
(*   - times are integer multiples of 1/TimeDen, the interpolation         *)
(*     parameter of 1/AlphaDen, angles of 1/UnitsPerDeg degree;            *)
(*   - vectors have integer components, velocities are exact reals of the  *)
(*     form a + b*sqrt(S) with rational a, b;                              *)
(*   - distances are floats on the grid 0..MaxFloat, with Inf above it.    *)
(***************************************************************************)
EXTENDS Integers, Sequences, FiniteSets, TLC

VARIABLES
    pc,                  \* the Blueprint caller's position: "call" | "done" | "idle"
    rot,                 \* SmoothRotatorInterp: its arguments and its result
    jump,                \* CalculateJumpVelocity: its arguments and its result
    SourceLocation,      \* FindClosestActor: argument
    ActorArray,          \* FindClosestActor: argument
    OutClosestActor,     \* FindClosestActor: out-parameter (the caller's variable)
    OutClosestDistance,  \* FindClosestActor: out-parameter (the caller's variable)
    found,               \* FindClosestActor: return value
    prior,               \* FindClosestActor: what the out-parameters held at the call
    editor               \* the PythonTools editor module and its style set

vars == <<pc, rot, jump, SourceLocation, ActorArray, OutClosestActor,
          OutClosestDistance, found, prior, editor>>

finderVars == <<SourceLocation, ActorArray, OutClosestActor, OutClosestDistance, found>>
callerVars == <<pc, rot, jump, finderVars, prior>>

(***************************************************************************)
(* Bounds of the model.                                                    *)
(***************************************************************************)
\* DeltaTime and InterpSpeed are multiples of 1/TimeDen ...
TimeDen == 2
\* ... with numerators in -MaxTime..MaxTime.
MaxTime == 3
\* Yaw arguments are multiples of YawStep degrees, from -MinYawN to MaxYawN steps.
YawStep == 10
MinYawN == 2
MaxYawN == 36

(***************************************************************************)
(* Angles.  AlphaDen is the denominator of DeltaTime * InterpSpeed; an     *)
(* angle unit of 1/(2*AlphaDen) degree keeps half angles and interpolated  *)
(* half angles of whole-degree rotators on the grid.                       *)
(***************************************************************************)
AlphaDen == TimeDen * TimeDen
UnitsPerDeg == 2 * AlphaDen
Deg(d) == d * UnitsPerDeg
FullTurn == Deg(360)
HalfTurn == Deg(180)
QuarterTurn == Deg(90)

\* FMath::Fmod: the remainder has the sign of the dividend.
Fmod(x, m) == IF x >= 0 THEN x % m ELSE -((-x) % m)

\* FRotator, in angle units.  Only yaw rotations are modelled.
FRotator(yaw) == [Pitch |-> 0, Yaw |-> yaw, Roll |-> 0]

\* FRotator::Quaternion() of a yaw rotation is (0, 0, sin(h), cos(h)) with
\* h = Fmod(Yaw, 360) / 2.  The unit quaternion is held as its angle h on the
\* circle of the Z-W plane; q and -q are h and h + 180 degrees.
Quaternion(R) == [HalfAngle |-> (Fmod(R.Yaw, FullTurn) \div 2) % FullTurn]

\* FQuat::Rotator(): the yaw is 2h, given in (-180, 180].
Rotator(Q) ==
    LET y == (2 * Q.HalfAngle) % FullTurn
    IN  FRotator(IF y > HalfTurn THEN y - FullTurn ELSE y)

\* The sign test of Quat1 | Quat2 = cos(h2 - h1): FloatSelect(RawCosom, a, b)
\* takes a when RawCosom >= 0.
RawCosomNonNegative(Q1, Q2) ==
    LET d == (Q2.HalfAngle - Q1.HalfAngle) % FullTurn
    IN  d <= QuarterTurn \/ d >= FullTurn - QuarterTurn

\* The signed angle, in (-180, 180], from half angle h1 to half angle h2.
SignedArc(h1, h2) ==
    LET d == (h2 - h1) % FullTurn
    IN  IF d > HalfTurn THEN d - FullTurn ELSE d

\* A slerp that interpolates straight from Quat1 to Quat2: no compensation for
\* a negative dot product.
SlerpNoCompensation(Quat1, Quat2, Alpha) ==
    [HalfAngle |-> (Quat1.HalfAngle
                    + (Alpha * SignedArc(Quat1.HalfAngle, Quat2.HalfAngle)) \div AlphaDen)
                   % FullTurn]

\* FQuat::Slerp(Quat1, Quat2, Alpha / AlphaDen).  With Omega = acos(|Quat1 | Quat2|)
\* the result is Quat1 * sin((1-t) Omega)/sin(Omega) +- Quat2 * sin(t Omega)/sin(Omega),
\* the sign being that of the dot product: on the circle, the point at angle
\* h1 + t * (arc from h1 to +-h2).  (Below Omega = 0.81 degrees the engine
\* interpolates linearly and normalizes; on this grid that is Omega = 0 only,
\* where both forms give Quat1.)
Slerp(Quat1, Quat2, Alpha) ==
    LET h2  == IF RawCosomNonNegative(Quat1, Quat2)
               THEN Quat2.HalfAngle
               ELSE (Quat2.HalfAngle + HalfTurn) % FullTurn
        arc == SignedArc(Quat1.HalfAngle, h2)
    IN  [HalfAngle |-> (Quat1.HalfAngle + (Alpha * arc) \div AlphaDen) % FullTurn]

\* FMath::Clamp
Clamp(X, Min, Max) == IF X < Min THEN Min ELSE IF X < Max THEN X ELSE Max

\* The interpolation parameter without the clamp.
InterpAlphaUnclamped(DeltaTime, InterpSpeed) == DeltaTime * InterpSpeed

\* FMath::Clamp(DeltaTime * InterpSpeed, 0.0f, 1.0f), as a numerator over AlphaDen.
InterpAlpha(DeltaTime, InterpSpeed) == Clamp(DeltaTime * InterpSpeed, 0, AlphaDen)

SmoothRotatorInterp(Current, Target, DeltaTime, InterpSpeed) ==
    LET CurrentQuat == Quaternion(Current)
        TargetQuat  == Quaternion(Target)
        ResultQuat  == Slerp(CurrentQuat, TargetQuat, InterpAlpha(DeltaTime, InterpSpeed))
    IN  Rotator(ResultQuat)

(***************************************************************************)
(* Initial values of the parts a specification does not exercise.          *)
(***************************************************************************)
NoRot == [Current |-> FRotator(0), Target |-> FRotator(0), DeltaTime |-> 0,
          InterpSpeed |-> 0, Alpha |-> 0, Result |-> FRotator(0)]

Yaws == { Deg(YawStep * n) : n \in (-MinYawN)..MaxYawN }
Times == (-MaxTime)..MaxTime

(***************************************************************************)
(* SmoothRotatorInterp, called once on arguments drawn from the grids.     *)
(***************************************************************************)
InitRotator ==
    /\ pc = "call"
    /\ \E c \in Yaws, t \in Yaws, dt \in Times, sp \in Times :
           rot = [NoRot EXCEPT !.Current = FRotator(c), !.Target = FRotator(t),
                               !.DeltaTime = dt, !.InterpSpeed = sp]

SmoothRotatorInterpCall ==
    /\ pc = "call"
    /\ rot' = [rot EXCEPT
                 !.Alpha  = InterpAlpha(rot.DeltaTime, rot.InterpSpeed),
                 !.Result = SmoothRotatorInterp(rot.Current, rot.Target,
                                                rot.DeltaTime, rot.InterpSpeed)]
    /\ pc' = "done"
    /\ UNCHANGED <<jump, finderVars, prior, editor>>

(***************************************************************************)
(* Exact arithmetic for CalculateJumpVelocity.  A rational is [n, d] in    *)
(* lowest terms with d > 0; d = 0 marks a non-finite float (a division by  *)
(* zero, or anything computed from one).                                   *)
(***************************************************************************)
Abs(x) == IF x < 0 THEN -x ELSE x

RECURSIVE GCD(_, _)
GCD(a, b) == IF b = 0 THEN a ELSE GCD(b, a % b)

NonFinite == [n |-> 0, d |-> 0]

Rat(n, d) ==
    IF d = 0 THEN NonFinite
    ELSE LET g == GCD(Abs(n), Abs(d))
             s == IF d < 0 THEN -1 ELSE 1
         IN  [n |-> (s * n) \div g, d |-> (s * d) \div g]

RAdd(x, y) == IF x.d = 0 \/ y.d = 0 THEN NonFinite ELSE Rat(x.n * y.d + y.n * x.d, x.d * y.d)
RNeg(x)    == IF x.d = 0 THEN NonFinite ELSE Rat(-x.n, x.d)
RSub(x, y) == RAdd(x, RNeg(y))
RMul(x, y) == IF x.d = 0 \/ y.d = 0 THEN NonFinite ELSE Rat(x.n * y.n, x.d * y.d)
RDiv(x, y) == IF x.d = 0 \/ y.d = 0 THEN NonFinite ELSE Rat(x.n * y.d, x.d * y.n)

(***************************************************************************)
(* A float of the computation is the real a + b*sqrt(S), S the squared     *)
(* horizontal distance of the call (the one radicand the function takes a  *)
(* root of).  When S is a perfect square the root is rational and b is 0,  *)
(* so the pair [a, b] is unique in both cases.                             *)
(***************************************************************************)
Real(n)      == [a |-> Rat(n, 1), b |-> Rat(0, 1)]
Half         == [a |-> Rat(1, 2), b |-> Rat(0, 1)]
IsFinite(x)  == x.a.d # 0 /\ x.b.d # 0

IsSquare(S)  == \E k \in 0..S : k * k = S
RootOf(S)    == CHOOSE k \in 0..S : k * k = S

\* FMath::Sqrt
Sqrt(S) == IF IsSquare(S) THEN Real(RootOf(S)) ELSE [a |-> Rat(0, 1), b |-> Rat(1, 1)]

XAdd(x, y) == [a |-> RAdd(x.a, y.a), b |-> RAdd(x.b, y.b)]
XSub(x, y) == [a |-> RSub(x.a, y.a), b |-> RSub(x.b, y.b)]
XMul(x, y, S) ==
    [a |-> RAdd(RMul(x.a, y.a), RMul(Rat(S, 1), RMul(x.b, y.b))),
     b |-> RAdd(RMul(x.a, y.b), RMul(x.b, y.a))]
\* x / y = x * conj(y) / (y.a^2 - S * y.b^2); a zero divisor gives a non-finite result.
XDiv(x, y, S) ==
    LET N == RSub(RMul(y.a, y.a), RMul(Rat(S, 1), RMul(y.b, y.b)))
    IN  XMul(x, [a |-> RDiv(y.a, N), b |-> RNeg(RDiv(y.b, N))], S)

\* FVector
FVector(X, Y, Z) == [X |-> X, Y |-> Y, Z |-> Z]

\* FVector::Normalize() without the zero-length test.
NormalizeUnguarded(V, S) ==
    LET Scale == XDiv(Real(1), Sqrt(S), S)
    IN  FVector(XMul(V.X, Scale, S), XMul(V.Y, Scale, S), XMul(V.Z, Scale, S))

\* FVector::Normalize(): scales by InvSqrt(SquareSum) when SquareSum > SMALL_NUMBER
\* (1e-8) and leaves the vector alone otherwise.  Components are integers here,
\* so SquareSum > SMALL_NUMBER is SquareSum > 0.  S is SquareSum.
Normalize(V, S) ==
    IF S > 0
    THEN LET Scale == XDiv(Real(1), Sqrt(S), S)
         IN  FVector(XMul(V.X, Scale, S), XMul(V.Y, Scale, S), XMul(V.Z, Scale, S))
    ELSE V

\* The Z velocity with the gravity term not halved.
ZVelocityNoHalf(ZDiff, GravityZ, JumpTime) ==
    XDiv(XSub(Real(ZDiff), Real(GravityZ * JumpTime * JumpTime)), Real(JumpTime), 0)

\* (ZDiff - 0.5f * GravityZ * JumpTime * JumpTime) / JumpTime
ZVelocity(ZDiff, GravityZ, JumpTime) ==
    XDiv(XSub(Real(ZDiff),
              XMul(XMul(XMul(Half, Real(GravityZ), 0), Real(JumpTime), 0), Real(JumpTime), 0)),
         Real(JumpTime), 0)

CalculateJumpVelocity(StartPos, TargetPos, GravityZ, JumpTime) ==
    LET dX == TargetPos.X - StartPos.X
        dY == TargetPos.Y - StartPos.Y
        ZDiff == TargetPos.Z - StartPos.Z
        \* Direction = TargetPos - StartPos; Direction.Z = 0.0f
        Direction == FVector(Real(dX), Real(dY), Real(0))
        S == dX * dX + dY * dY
        XYDistance == Sqrt(S)                     \* Direction.Size()
        Dir == Normalize(Direction, S)            \* Direction.Normalize()
        Speed == XDiv(XYDistance, Real(JumpTime), S)
        XYVelocity == FVector(XMul(Dir.X, Speed, S), XMul(Dir.Y, Speed, S),
                              XMul(Dir.Z, Speed, S))
    IN  FVector(XYVelocity.X, XYVelocity.Y, ZVelocity(ZDiff, GravityZ, JumpTime))

\* Start components are in 0..MaxStart (Y is 0), target X and Y in
\* -MaxCoord..MaxCoord and target Z in -MaxZ..MaxZ.
MaxStart == 1
MaxCoord == 3
MaxZ == 1
\* GravityZ is in -MaxGravity..MaxGravity, JumpTime in 1..MaxJumpTime.
MaxGravity == 2
MaxJumpTime == 3

NoJump == [StartPos |-> FVector(0, 0, 0), TargetPos |-> FVector(0, 0, 0),
           GravityZ |-> 0, JumpTime |-> 1,
           Velocity |-> FVector(Real(0), Real(0), Real(0))]

(***************************************************************************)
(* CalculateJumpVelocity, called once on arguments drawn from the grids.   *)
(* The caller guarantees JumpTime > 0.                                     *)
(***************************************************************************)
InitJump ==
    /\ pc = "call"
    /\ \E sx \in 0..MaxStart, sz \in 0..MaxStart,
          tx \in (-MaxCoord)..MaxCoord, ty \in (-MaxCoord)..MaxCoord,
          tz \in (-MaxZ)..MaxZ, g \in (-MaxGravity)..MaxGravity, T \in 1..MaxJumpTime :
           jump = [NoJump EXCEPT !.StartPos = FVector(sx, 0, sz),
                                 !.TargetPos = FVector(tx, ty, tz),
                                 !.GravityZ = g, !.JumpTime = T]

CalculateJumpVelocityCall ==
    /\ pc = "call"
    /\ jump' = [jump EXCEPT !.Velocity = CalculateJumpVelocity(
                    jump.StartPos, jump.TargetPos, jump.GravityZ, jump.JumpTime)]
    /\ pc' = "done"
    /\ UNCHANGED <<rot, finderVars, prior, editor>>

(***************************************************************************)
(* FindClosestActor.  Distances are floats: the values 0..MaxFloat, and    *)
(* Inf for anything larger.                                                *)
(***************************************************************************)
\* The largest finite float of the model.
MaxFloat == 7
\* Arrays have up to MaxLen entries; the source is (x, 0, 0), x in 0..MaxSource.
MaxLen == 3
MaxSource == 1

MAX_FLT == MaxFloat
Inf == MaxFloat + 1

nullptr == "nullptr"
Actors == {"A", "B", "C", "D", "E"}

\* AActor::GetActorLocation() in the world of the model: A and B are equally
\* far from the origin, C is nearer, D is MAX_FLT away from it and E farther.
GetActorLocation(Actor) ==
    CASE Actor = "A" -> FVector(5, 0, 0)
      [] Actor = "B" -> FVector(3, 4, 0)
      [] Actor = "C" -> FVector(2, 0, 0)
      [] Actor = "D" -> FVector(MaxFloat, 0, 0)
      [] Actor = "E" -> FVector(MaxFloat + 2, 0, 0)

\* The float square root: the real root rounded (toward zero) to the grid, and
\* Inf above MAX_FLT.
FloatSqrt(n) ==
    IF n > MaxFloat * MaxFloat + 2 * MaxFloat THEN Inf
    ELSE CHOOSE k \in 0..MaxFloat : k * k <= n /\ n < (k + 1) * (k + 1)

\* FVector::Distance
Distance(V1, V2) ==
    FloatSqrt((V2.X - V1.X) * (V2.X - V1.X) + (V2.Y - V1.Y) * (V2.Y - V1.Y)
              + (V2.Z - V1.Z) * (V2.Z - V1.Z))

\* The loop of FindClosestActor from entry i on, with the running best.
RECURSIVE Scan(_, _, _, _, _)
Scan(Source, Array, i, BestActor, BestDistance) ==
    IF i > Len(Array) THEN [Actor |-> BestActor, Distance |-> BestDistance]
    ELSE IF Array[i] = nullptr
         THEN Scan(Source, Array, i + 1, BestActor, BestDistance)
         ELSE LET Dist == Distance(Source, GetActorLocation(Array[i]))
              IN  IF Dist < BestDistance
                  THEN Scan(Source, Array, i + 1, Array[i], Dist)
                  ELSE Scan(Source, Array, i + 1, BestActor, BestDistance)

\* FindClosestActor without the two assignments that reset the out-parameters.
FindClosestActorNoReset(Source, Array, PriorActor, PriorDistance) ==
    IF Len(Array) = 0
    THEN [Actor |-> PriorActor, Distance |-> PriorDistance, Return |-> FALSE]
    ELSE LET r == Scan(Source, Array, 1, PriorActor, PriorDistance)
         IN  [Actor |-> r.Actor, Distance |-> r.Distance, Return |-> r.Actor # nullptr]

\* FindClosestActor: what it leaves in OutClosestActor and OutClosestDistance
\* and what it returns.  PriorActor and PriorDistance are what the
\* out-parameters held at the call.
FindClosestActor(Source, Array, PriorActor, PriorDistance) ==
    IF Len(Array) = 0
    THEN [Actor |-> nullptr, Distance |-> MAX_FLT, Return |-> FALSE]
    ELSE LET r == Scan(Source, Array, 1, nullptr, MAX_FLT)
         IN  [Actor |-> r.Actor, Distance |-> r.Distance, Return |-> r.Actor # nullptr]

RECURSIVE ArraysOfLen(_)
ArraysOfLen(n) ==
    IF n = 0 THEN {<<>>}
    ELSE {Append(a, e) : a \in ArraysOfLen(n - 1), e \in Actors \cup {nullptr}}

ActorArrays == UNION {ArraysOfLen(n) : n \in 0..MaxLen}

(***************************************************************************)
(* FindClosestActor, called once; the caller's two out-variables hold      *)
(* anything at the call.                                                   *)
(***************************************************************************)
InitFinder ==
    /\ pc = "call"
    /\ found = FALSE
    /\ SourceLocation \in {FVector(x, 0, 0) : x \in 0..MaxSource}
    /\ ActorArray \in ActorArrays
    /\ OutClosestActor \in {nullptr, "A"}
    /\ OutClosestDistance \in 0..MaxFloat
    /\ prior = [Actor |-> OutClosestActor, Distance |-> OutClosestDistance]

FindClosestActorCall ==
    /\ pc = "call"
    /\ LET r == FindClosestActor(SourceLocation, ActorArray,
                                 OutClosestActor, OutClosestDistance)
       IN  /\ OutClosestActor' = r.Actor
           /\ OutClosestDistance' = r.Distance
           /\ found' = r.Return
    /\ pc' = "done"
    /\ UNCHANGED <<SourceLocation, ActorArray, prior, rot, jump, editor>>

(***************************************************************************)
(* The PythonTools editor module.  editor holds                            *)
(*   StyleInstance      FPythonToolsEditorStyle::StyleInstance.IsValid()   *)
(*   Registered         how many times the style set is in the registry    *)
(*   DerefInvalid       an invalid StyleInstance has been dereferenced     *)
(*   Crashed            the process has stopped on a failed check          *)
(*   ModuleLoaded       the module manager has started the module          *)
(*   CommandsRegistered FPythonToolsEditorCommands is registered           *)
(*   PluginCommands     PluginCommands.IsValid()                           *)
(*   StartupCallback    RegisterMenus waits in UToolMenus' startup list    *)
(*   MenuEntries        menu and toolbar entries owned by the module       *)
(*   SlateInitialized   FSlateApplication::IsInitialized()                 *)
(*   TexturesReloaded   ReloadTextureResources() has run                   *)
(*   PythonAvailable    IPythonScriptPlugin::IsAvailable()                 *)
(*   PythonPaths        the paths given to AddPythonPath                   *)
(*   ScriptsRun         commands given to ExecPythonCommand                *)
(***************************************************************************)
\* ExecPythonCommand is counted up to MaxScripts.
MaxScripts == 2

NoEditor ==
    [StyleInstance |-> FALSE, Registered |-> 0, DerefInvalid |-> FALSE,
     Crashed |-> FALSE, ModuleLoaded |-> FALSE, CommandsRegistered |-> FALSE,
     PluginCommands |-> FALSE, StartupCallback |-> FALSE, MenuEntries |-> 0,
     SlateInitialized |-> FALSE, TexturesReloaded |-> FALSE,
     PythonAvailable |-> FALSE, PythonPaths |-> {}, ScriptsRun |-> 0]

\* FPythonToolsEditorStyle::Initialize
StyleInitialize(e) ==
    IF ~e.StyleInstance
    THEN [e EXCEPT !.StyleInstance = TRUE,            \* StyleInstance = Create()
                   !.Registered = e.Registered + 1]   \* RegisterSlateStyle(*StyleInstance)
    ELSE e

\* FPythonToolsEditorStyle::Shutdown: the states it can leave.  *StyleInstance
\* is evaluated whatever StyleInstance holds; on an invalid pointer the check
\* inside operator* stops the process, or, compiled out, lets it run on with
\* nothing unregistered.
StyleShutdown(e) ==
    IF e.StyleInstance
    THEN {[e EXCEPT !.Registered = e.Registered - 1,  \* UnRegisterSlateStyle(*StyleInstance)
                    !.StyleInstance = FALSE]}         \* StyleInstance.Reset()
    ELSE {[e EXCEPT !.DerefInvalid = TRUE, !.Crashed = TRUE],
          [e EXCEPT !.DerefInvalid = TRUE]}

\* FPythonToolsEditorStyle::ReloadTextures
StyleReloadTextures(e) ==
    IF e.SlateInitialized THEN [e EXCEPT !.TexturesReloaded = TRUE] ELSE e

\* FPythonToolsEditorModule::InitializePythonPaths
InitializePythonPaths(e) ==
    IF e.PythonAvailable
    THEN [e EXCEPT !.PythonPaths = e.PythonPaths \cup {"PluginPythonPath", "ProjectPythonPath"}]
    ELSE e

\* FPythonToolsEditorModule::RunPythonScript
RunPythonScript(e) ==
    IF e.PythonAvailable THEN [e EXCEPT !.ScriptsRun = e.ScriptsRun + 1] ELSE e

InitEditor ==
    /\ pc = "idle"
    /\ \E slate \in BOOLEAN, python \in BOOLEAN :
           editor = [NoEditor EXCEPT !.SlateInitialized = slate,
                                     !.PythonAvailable = python]

\* A call of FPythonToolsEditorStyle::Initialize().
Initialize ==
    /\ ~editor.Crashed
    /\ editor' = StyleInitialize(editor)
    /\ UNCHANGED callerVars

\* A call of FPythonToolsEditorStyle::Shutdown().
Shutdown ==
    /\ ~editor.Crashed
    /\ editor' \in StyleShutdown(editor)
    /\ UNCHANGED callerVars

\* A call of FPythonToolsEditorStyle::ReloadTextures().
ReloadTextures ==
    /\ ~editor.Crashed
    /\ editor' = StyleReloadTextures(editor)
    /\ UNCHANGED callerVars

\* The module manager loads the module.
StartupModule ==
    /\ ~editor.Crashed
    /\ ~editor.ModuleLoaded
    /\ LET e1 == StyleReloadTextures(StyleInitialize(editor))
           e2 == [e1 EXCEPT !.CommandsRegistered = TRUE,   \* Commands::Register()
                            !.PluginCommands = TRUE,       \* MakeShareable, MapAction
                            !.StartupCallback = TRUE,      \* RegisterStartupCallback
                            !.ModuleLoaded = TRUE]
       IN  editor' = InitializePythonPaths(e2)
    /\ UNCHANGED callerVars

\* The module manager unloads the module.
ShutdownModule ==
    /\ ~editor.Crashed
    /\ editor.ModuleLoaded
    /\ LET e1 == [editor EXCEPT !.StartupCallback = FALSE,  \* UnRegisterStartupCallback(this)
                                !.MenuEntries = 0,          \* UnregisterOwner(this)
                                !.ModuleLoaded = FALSE]
       IN  \E e2 \in StyleShutdown(e1) :
               editor' = IF e2.Crashed THEN e2
                         ELSE [e2 EXCEPT !.CommandsRegistered = FALSE]  \* Commands::Unregister()
    /\ UNCHANGED callerVars

\* UToolMenus runs the startup callback: FPythonToolsEditorModule::RegisterMenus.
RegisterMenus ==
    /\ ~editor.Crashed
    /\ editor.StartupCallback
    /\ editor' = [editor EXCEPT !.StartupCallback = FALSE,
                                !.MenuEntries = editor.MenuEntries + 2]
    /\ UNCHANGED callerVars

\* The user clicks the button: FPythonToolsEditorModule::PluginButtonClicked.
PluginButtonClicked ==
    /\ ~editor.Crashed
    /\ editor.MenuEntries > 0
    /\ editor.PluginCommands
    /\ editor.ScriptsRun < MaxScripts
    /\ editor' = RunPythonScript(editor)
    /\ UNCHANGED callerVars

(***************************************************************************)
(* The specifications: one per function of the Blueprint library, called   *)
(* on drawn arguments, and one of the editor module.  Each starts with the *)
(* parts it does not exercise at rest.                                     *)
(***************************************************************************)
NoFinder ==
    /\ SourceLocation = FVector(0, 0, 0)
    /\ ActorArray = <<>>
    /\ OutClosestActor = nullptr
    /\ OutClosestDistance = 0
    /\ found = FALSE
    /\ prior = [Actor |-> nullptr, Distance |-> 0]

InitRotatorSpec == InitRotator /\ jump = NoJump /\ NoFinder /\ editor = NoEditor
InitJumpSpec    == InitJump /\ rot = NoRot /\ NoFinder /\ editor = NoEditor
InitFinderSpec  == InitFinder /\ rot = NoRot /\ jump = NoJump /\ editor = NoEditor
InitEditorSpec  == InitEditor /\ rot = NoRot /\ jump = NoJump /\ NoFinder

NextRotator == SmoothRotatorInterpCall
NextJump    == CalculateJumpVelocityCall
NextFinder  == FindClosestActorCall
NextEditor ==
    \/ Initialize
    \/ Shutdown
    \/ ReloadTextures
    \/ StartupModule
    \/ ShutdownModule
    \/ RegisterMenus
    \/ PluginButtonClicked

\* The editor module as the module manager alone drives it.
NextModuleLifecycle ==
    \/ StartupModule
    \/ ShutdownModule
    \/ RegisterMenus
    \/ PluginButtonClicked

SpecRotator == InitRotatorSpec /\ [][NextRotator]_vars
SpecJump    == InitJumpSpec /\ [][NextJump]_vars
SpecFinder  == InitFinderSpec /\ [][NextFinder]_vars
SpecEditor  == InitEditorSpec /\ [][NextEditor]_vars
SpecModuleLifecycle == InitEditorSpec /\ [][NextModuleLifecycle]_vars

(***************************************************************************)
(* SmoothRotatorInterp: the claims, under SpecRotator.                     *)
(***************************************************************************)
\* Two rotators denote the same orientation: their yaws differ by whole turns.
SameOrientation(R1, R2) == (R1.Yaw - R2.Yaw) % FullTurn = 0

\* The shortest angular distance between two orientations, at most 180 degrees.
AngularDistance(R1, R2) ==
    LET d == (R1.Yaw - R2.Yaw) % FullTurn
    IN  IF d > HalfTurn THEN FullTurn - d ELSE d

\* C5: SmoothRotatorInterp returns Current whenever InterpSpeed <= 0 or
\* DeltaTime <= 0, either condition alone sufficing for every value of the
\* other argument.
C5_NonPositiveReturnsCurrent ==
    (pc = "done" /\ (rot.InterpSpeed <= 0 \/ rot.DeltaTime <= 0))
        => SameOrientation(rot.Result, rot.Current)

\* What holds of C5's case: the result is Current whenever the product
\* DeltaTime * InterpSpeed is not positive.
C5_NonPositiveProductReturnsCurrent ==
    (pc = "done" /\ rot.DeltaTime * rot.InterpSpeed <= 0)
        => SameOrientation(rot.Result, rot.Current)

\* C6: the interpolation parameter given to the slerp is always within [0, 1],
\* and whenever DeltaTime * InterpSpeed >= 1 the result is the orientation of
\* Target.
C6_NeverOvershoots ==
    pc = "done" =>
        /\ rot.Alpha \in 0..AlphaDen
        /\ rot.DeltaTime * rot.InterpSpeed >= AlphaDen
               => SameOrientation(rot.Result, rot.Target)

\* C6's case: a call with DeltaTime * InterpSpeed > 1 on two different
\* orientations has returned Target.
C6_Witness ==
    /\ pc = "done"
    /\ rot.DeltaTime * rot.InterpSpeed > AlphaDen
    /\ ~SameOrientation(rot.Current, rot.Target)
    /\ rot.Alpha = AlphaDen
    /\ SameOrientation(rot.Result, rot.Target)

\* C8: for every parameter strictly between 0 and 1 the result lies on the
\* shortest arc: its angular distances to Current and to Target add up to the
\* shortest angular distance between Current and Target; and halfway between
\* yaw 10 and yaw 350 the result is yaw 0.
C8_ShortestArc ==
    (pc = "done" /\ 0 < rot.Alpha /\ rot.Alpha < AlphaDen) =>
        /\ AngularDistance(rot.Result, rot.Current) + AngularDistance(rot.Result, rot.Target)
               = AngularDistance(rot.Current, rot.Target)
        /\ (rot.Current.Yaw = Deg(10) /\ rot.Target.Yaw = Deg(350) /\ 2 * rot.Alpha = AlphaDen)
               => SameOrientation(rot.Result, FRotator(0))

\* C8's case: the halfway call on yaw 10 and yaw 350, whose quaternions have a
\* negative dot product, has returned yaw 0.
C8_Witness ==
    /\ pc = "done"
    /\ rot.Current.Yaw = Deg(10)
    /\ rot.Target.Yaw = Deg(350)
    /\ 2 * rot.Alpha = AlphaDen
    /\ ~RawCosomNonNegative(Quaternion(rot.Current), Quaternion(rot.Target))
    /\ rot.Result.Yaw = 0

(***************************************************************************)
(* CalculateJumpVelocity: the claims, under SpecJump.                      *)
(***************************************************************************)
\* The squared horizontal distance of the call.
HorizontalSquare ==
    (jump.TargetPos.X - jump.StartPos.X) * (jump.TargetPos.X - jump.StartPos.X)
    + (jump.TargetPos.Y - jump.StartPos.Y) * (jump.TargetPos.Y - jump.StartPos.Y)

\* StartPos + Velocity * JumpTime + 0.5 * (0, 0, GravityZ) * JumpTime^2
LandingPosition ==
    LET S == HorizontalSquare
        T == Real(jump.JumpTime)
        Fall == XMul(XMul(XMul(Half, Real(jump.GravityZ), S), T, S), T, S)
    IN  FVector(XAdd(Real(jump.StartPos.X), XMul(jump.Velocity.X, T, S)),
                XAdd(Real(jump.StartPos.Y), XMul(jump.Velocity.Y, T, S)),
                XAdd(XAdd(Real(jump.StartPos.Z), XMul(jump.Velocity.Z, T, S)), Fall))

\* C4: with JumpTime > 0, a projectile launched from StartPos with the returned
\* velocity is at TargetPos, in all three components, at time JumpTime.
C4_RoundTrip ==
    pc = "done" =>
        LandingPosition = FVector(Real(jump.TargetPos.X), Real(jump.TargetPos.Y),
                                  Real(jump.TargetPos.Z))

\* C4's case: a call with an irrational horizontal distance, a height
\* difference, falling gravity and JumpTime > 1 has landed on TargetPos.
C4_Witness ==
    /\ pc = "done"
    /\ ~IsSquare(HorizontalSquare)
    /\ jump.TargetPos.Z # jump.StartPos.Z
    /\ jump.GravityZ < 0
    /\ jump.JumpTime > 1
    /\ LandingPosition.X = Real(jump.TargetPos.X)
    /\ LandingPosition.Z = Real(jump.TargetPos.Z)

\* C7: with zero horizontal distance the returned X and Y are 0, nothing has
\* been divided by zero (every component is finite), and
\* Z = (TargetPos.Z - StartPos.Z - 0.5 * GravityZ * JumpTime^2) / JumpTime.
C7_ZeroHorizontalDistance ==
    (pc = "done" /\ jump.StartPos.X = jump.TargetPos.X /\ jump.StartPos.Y = jump.TargetPos.Y)
        => /\ jump.Velocity.X = Real(0)
           /\ jump.Velocity.Y = Real(0)
           /\ IsFinite(jump.Velocity.Z)
           /\ jump.Velocity.Z =
                  [a |-> Rat(2 * (jump.TargetPos.Z - jump.StartPos.Z)
                             - jump.GravityZ * jump.JumpTime * jump.JumpTime,
                             2 * jump.JumpTime),
                   b |-> Rat(0, 1)]

\* C7's case: a call straight up under gravity has returned a vertical velocity.
C7_Witness ==
    /\ pc = "done"
    /\ jump.StartPos.X = jump.TargetPos.X
    /\ jump.StartPos.Y = jump.TargetPos.Y
    /\ jump.TargetPos.Z > jump.StartPos.Z
    /\ jump.GravityZ < 0
    /\ jump.Velocity.X = Real(0)
    /\ jump.Velocity.Y = Real(0)
    /\ jump.Velocity.Z.a.n > 0

(***************************************************************************)
(* FindClosestActor: the claims, under SpecFinder.                         *)
(***************************************************************************)
NonNullEntries == {i \in 1..Len(ActorArray) : ActorArray[i] # nullptr}

EntryDistance(i) == Distance(SourceLocation, GetActorLocation(ActorArray[i]))

\* The minimum distance over the non-null entries (when there is one).
MinDistance ==
    CHOOSE d \in {EntryDistance(i) : i \in NonNullEntries} :
        \A j \in NonNullEntries : d <= EntryDistance(j)

\* The lowest index of a non-null entry at the minimum distance.
FirstMinIndex ==
    CHOOSE i \in NonNullEntries :
        /\ EntryDistance(i) = MinDistance
        /\ \A j \in NonNullEntries : EntryDistance(j) = MinDistance => i <= j

\* C1: for every source and every array with a non-null entry,
\* OutClosestDistance is the minimum distance over the non-null entries and
\* OutClosestActor is a non-null entry at exactly that distance.
C1_Minimality ==
    (pc = "done" /\ NonNullEntries # {}) =>
        /\ OutClosestDistance = MinDistance
        /\ OutClosestActor # nullptr
        /\ \E i \in NonNullEntries :
               ActorArray[i] = OutClosestActor /\ EntryDistance(i) = MinDistance

\* What holds of C1's case: minimality whenever some non-null entry is nearer
\* than MAX_FLT.
C1_MinimalityBelowMaxFlt ==
    (pc = "done" /\ NonNullEntries # {} /\ MinDistance < MAX_FLT) =>
        /\ OutClosestDistance = MinDistance
        /\ OutClosestActor # nullptr
        /\ \E i \in NonNullEntries :
               ActorArray[i] = OutClosestActor /\ EntryDistance(i) = MinDistance

\* C2: when several non-null entries are at the minimum distance, the actor
\* returned is the one of lowest index, whatever nulls or farther actors stand
\* before or between them.
C2_TieBreak ==
    (pc = "done" /\ NonNullEntries # {}
       /\ Cardinality({i \in NonNullEntries : EntryDistance(i) = MinDistance}) >= 2)
        => OutClosestActor = ActorArray[FirstMinIndex]

\* What holds of C2's case: the first entry at the minimum distance is returned
\* whenever that distance is below MAX_FLT.
C2_TieBreakBelowMaxFlt ==
    (pc = "done" /\ NonNullEntries # {} /\ MinDistance < MAX_FLT)
        => OutClosestActor = ActorArray[FirstMinIndex]

\* C2's case below MAX_FLT: two actors tie at the minimum distance behind a
\* null and a farther actor, and the first of the two is returned.
C2_TieBelowMaxFltReached ==
    /\ pc = "done"
    /\ Cardinality({ActorArray[i] : i \in {j \in NonNullEntries : EntryDistance(j) = MinDistance}}) >= 2
    /\ FirstMinIndex > 1
    /\ MinDistance < MAX_FLT
    /\ OutClosestActor = ActorArray[FirstMinIndex]

\* C3: on an empty array, or one whose entries are all null, the call returns
\* false and leaves OutClosestActor = null and OutClosestDistance = MAX_FLT,
\* whatever the two out-parameters held before.
C3_EmptyOrAllNull ==
    (pc = "done" /\ NonNullEntries = {}) =>
        /\ found = FALSE
        /\ OutClosestActor = nullptr
        /\ OutClosestDistance = MAX_FLT

\* C3's case: a call on a non-empty array of nulls, with an actor and a
\* distance in the out-parameters beforehand, has reset both.
C3_Witness ==
    /\ pc = "done"
    /\ Len(ActorArray) > 0
    /\ NonNullEntries = {}
    /\ prior.Actor # nullptr
    /\ prior.Distance < MAX_FLT
    /\ found = FALSE
    /\ OutClosestActor = nullptr
    /\ OutClosestDistance = MAX_FLT

\* C9: the call returns true if and only if the array holds a non-null actor,
\* at every distance up to and including MAX_FLT, and if and only if
\* OutClosestActor is non-null.
C9_FoundIffNonNull ==
    pc = "done" =>
        /\ found <=> (NonNullEntries # {})
        /\ found <=> (OutClosestActor # nullptr)

\* What holds of C9's case: the call returns true exactly when OutClosestActor
\* is non-null, and exactly when some non-null entry is nearer than MAX_FLT.
C9_FoundIffNearerThanMaxFlt ==
    pc = "done" =>
        /\ found <=> (OutClosestActor # nullptr)
        /\ found <=> (NonNullEntries # {} /\ MinDistance < MAX_FLT)

(***************************************************************************)
(* The style set: the claim, under SpecEditor.                             *)
(***************************************************************************)
\* C10: after any sequence of Initialize and Shutdown calls the style set is
\* registered if and only if StyleInstance is valid, it is never registered
\* more than once, and Shutdown has never dereferenced an invalid
\* StyleInstance.
C10_StyleLifecycle ==
    /\ editor.StyleInstance <=> (editor.Registered >= 1)
    /\ editor.Registered <= 1
    /\ ~editor.DerefInvalid

\* What holds of C10's case: registration follows StyleInstance, once at most,
\* in every state.
C10_RegisteredIffValid ==
    /\ editor.StyleInstance <=> (editor.Registered >= 1)
    /\ editor.Registered <= 1

====
